---- MODULE Spec2Model ----
(***************************************************************************)
(* ImageStyler: image -> ASCII art / paint style converter.                *)
(*                                                                         *)
(* The repository holds three variants of the same script:                 *)
(*   V1     src/unnamed/part_000 lines 1-981    (originalCanvas, undo)      *)
(*   GIF    src/unnamed/part_000 lines 982-2306 (animated GIF support)      *)
(*   script src/script.js                       (first, simple version)     *)
(*                                                                         *)
(* Spec       the V1 event-driven state machine (file reads and image      *)
(*            decodes complete asynchronously, in any order)               *)
(* SpecGrid   the arithmetic of the converters (ramp index, derived rows,  *)
(*            glyph cell size, pixel-layer rectangles) on bounded inputs   *)
(***************************************************************************)
EXTENDS Integers, Sequences, FiniteSets, TLC

(***************************************************************************)
(* Bounds of the model                                                     *)
(***************************************************************************)
\* colour channels take the values (k * 255) \div LevelSteps, k in 0..LevelSteps
LevelSteps == 3
\* widths and heights of the bitmaps of the arithmetic specification
MaxDim == 6
\* column counts of the arithmetic specification
MaxCols == 6
\* cell sizes of the arithmetic specification (larger than MaxDim on purpose)
MaxCell == 8

(***************************************************************************)
(* JavaScript arithmetic on non-negative rationals p/q                     *)
(***************************************************************************)
Max(a, b) == IF a >= b THEN a ELSE b
Min(a, b) == IF a <= b THEN a ELSE b

\* Math.floor(p / q)
MathFloor(p, q) == p \div q

\* Math.round(p / q): nearest integer, halves towards +Infinity
MathRound(p, q) == (2 * p + q) \div (2 * q)

(***************************************************************************)
(* ASCII conversion: ramp                                                  *)
(***************************************************************************)
ASCII_CHARS == <<"@", "%", "#", "*", "+", "=", "-", ":", ".", " ">>

\* 1000 * (0.299 r + 0.587 g + 0.114 b); brightness is this over 255000.
\* (the IEEE double evaluation of the source expression gives the same
\*  index as this exact arithmetic for all 256^3 colours)
Luma(c) == 299 * c[1] + 587 * c[2] + 114 * c[3]

\* a plausible slip: the ramp has Len entries, not Len - 1 steps
charIndexOffByOne(c) == MathFloor((255000 - Luma(c)) * Len(ASCII_CHARS), 255000)

\* a plausible slip: index grows with brightness
charIndexNotInverted(c) == MathFloor(Luma(c) * (Len(ASCII_CHARS) - 1), 255000)

\* Math.floor((1 - brightness) * (ASCII_CHARS.length - 1))
charIndex(c) == MathFloor((255000 - Luma(c)) * (Len(ASCII_CHARS) - 1), 255000)

\* ASCII_CHARS[charIndex]; an index outside the string reads undefined
charAt(i) == IF i \in 0..(Len(ASCII_CHARS) - 1) THEN ASCII_CHARS[i + 1] ELSE "undefined"

(***************************************************************************)
(* ASCII conversion: grid                                                  *)
(***************************************************************************)
\* a plausible slip: truncating instead of rounding
asciiRowsFloor(cols, origWidth, origHeight) == Max(4, MathFloor(cols * origHeight, 2 * origWidth))

\* Math.max(4, Math.round((cols * origHeight / origWidth) * charAspect)), charAspect = 0.5
asciiRows(cols, origWidth, origHeight) == Max(4, MathRound(cols * origHeight, 2 * origWidth))

\* charW = Math.round(origWidth / cols), charH = Math.round(origHeight / rows)
charSize(orig, n) == MathRound(orig, n)

(***************************************************************************)
(* Paint conversion: grid and pixel-layer rectangles                       *)
(***************************************************************************)
\* smallW = Math.max(Math.floor(srcCanvas.width / pixelSize), 1)
smallSize(src, pixelSize) == Max(MathFloor(src, pixelSize), 1)

\* a plausible slip (the rectangle of script.js): no stretching at the edges
PixelRectFixed(x, y, smallW, smallH, pixelSize, canvasWidth, canvasHeight) ==
  [x |-> x * pixelSize, y |-> y * pixelSize, w |-> pixelSize, h |-> pixelSize]

\* the rectangle handed to fillRect for cell (x, y) of the pixel layer
PixelRect(x, y, smallW, smallH, pixelSize, canvasWidth, canvasHeight) ==
  [x |-> x * pixelSize,
   y |-> y * pixelSize,
   w |-> IF x = smallW - 1 THEN canvasWidth - x * pixelSize ELSE pixelSize,
   h |-> IF y = smallH - 1 THEN canvasHeight - y * pixelSize ELSE pixelSize]

\* fillRect(x, y, w, h) covers pixel (px, py); a negative extent runs backwards
InSpan(p, start, len) ==
  IF len >= 0 THEN start <= p /\ p < start + len
              ELSE start + len <= p /\ p < start
RectCovers(r, px, py) == InSpan(px, r.x, r.w) /\ InSpan(py, r.y, r.h)

Cells(smallW, smallH) == (0..(smallW - 1)) \X (0..(smallH - 1))

\* cols = Number(cols) || 120: the column count of an empty or zero input
DefaultCols == 120


(***************************************************************************)
(* Bitmaps and canvases                                                    *)
(*                                                                         *)
(* A pixel is a record                                                     *)
(*   c    the RGBA colour under the overlays                               *)
(*   ink  the glyphs fillText anchored at this pixel, in drawing order     *)
(*   fs   the font size of that ink (0 when there is none)                 *)
(*   fc   the cell colour the paint effects were drawn with                *)
(*   fx   the paint effects composited over it, in drawing order, each     *)
(*        <<layer, strength in percent, random draws of the call>>         *)
(* A canvas is [w, h, px] with px the row-major sequence of its pixels.    *)
(***************************************************************************)
WhiteRGBA == <<255, 255, 255, 255>>
BlackRGBA == <<0, 0, 0, 255>>
ClearRGBA == <<0, 0, 0, 0>>

PlainPixel(c) == [c |-> c, ink |-> <<>>, fs |-> 0, fc |-> ClearRGBA, fx |-> <<>>]

PixIndex(w, x, y) == y * w + x + 1
PixelAt(canvas, x, y) == canvas.px[PixIndex(canvas.w, x, y)]

\* document.createElement('canvas'): 300 x 150, transparent; the pixels of
\* the never-drawn canvas are not materialised (nothing reads them)
NewCanvas == [w |-> 300, h |-> 150, px |-> <<>>]

\* the colour getImageData reports for a pixel: black where a visible glyph
\* was inked (fillStyle '#000'), the colour underneath otherwise
TopColour(p) == IF \E i \in DOMAIN p.ink : p.ink[i] # " " THEN BlackRGBA ELSE p.c

\* source-over compositing of colour c (alpha c[4] of 255) over an opaque colour
Over(c, under) ==
  <<(c[1] * c[4] + under[1] * (255 - c[4])) \div 255,
    (c[2] * c[4] + under[2] * (255 - c[4])) \div 255,
    (c[3] * c[4] + under[3] * (255 - c[4])) \div 255,
    255>>

\* drawImage(src, 0, 0, src.w, src.h, 0, 0, cols, rows) + getImageData:
\* the sample of cell (x, y) is the source pixel under the cell centre
SampleCell(src, x, y, cols, rows) ==
  TopColour(PixelAt(src, MathFloor((2 * x + 1) * src.w, 2 * cols),
                         MathFloor((2 * y + 1) * src.h, 2 * rows)))

Sample(src, cols, rows) ==
  [cell \in Cells(cols, rows) |-> SampleCell(src, cell[1], cell[2], cols, rows)]

\* canvas.toDataURL('image/png') and the decode of img.src = dataURL
NoData == [mime |-> "", w |-> 0, h |-> 0, px |-> <<>>]
toDataURL(canvas) == [mime |-> "image/png", w |-> canvas.w, h |-> canvas.h, px |-> canvas.px]
Decode(url) == [w |-> url.w, h |-> url.h, px |-> url.px]

(***************************************************************************)
(* The files the user can choose                                           *)
(*   1  a 2 x 2 image of solid red      2  a 3 x 2 image of several colours *)
(*   3  an image that decodes to 0 x 0      4  not an image                *)
(***************************************************************************)
Files == {1, 2, 3, 4}

FileIsImage(f) == f # 4

FileBitmap(f) ==
  CASE f = 1 -> [w |-> 2, h |-> 2,
                 px |-> <<PlainPixel(<<255, 0, 0, 255>>), PlainPixel(<<255, 0, 0, 255>>),
                          PlainPixel(<<255, 0, 0, 255>>), PlainPixel(<<255, 0, 0, 255>>)>>]
    [] f = 2 -> [w |-> 3, h |-> 2,
                 px |-> <<PlainPixel(<<0, 0, 255, 255>>), PlainPixel(<<255, 255, 0, 255>>),
                          PlainPixel(<<0, 255, 0, 128>>), PlainPixel(<<170, 170, 170, 255>>),
                          PlainPixel(<<0, 0, 0, 255>>), PlainPixel(<<255, 255, 255, 255>>)>>]
    [] OTHER -> [w |-> 0, h |-> 0, px |-> <<>>]

\* FileReader.readAsDataURL(file)
FileDataURL(f) ==
  [mime |-> "image/file", w |-> FileBitmap(f).w, h |-> FileBitmap(f).h, px |-> FileBitmap(f).px]

(***************************************************************************)
(* State                                                                   *)
(***************************************************************************)
VARIABLES
  loadedImage,          \* the file whose decoded Image is loadedImage, 0 for null
  exportCanvas,         \* working canvas: the conversion output
  originalCanvas,       \* pristine copy of the loaded image (V1)
  originalImageData,    \* data URL of the original, for reset
  historyStack,         \* undo stack of PNG data URLs
  undoDisabled,         \* undoBtn.disabled
  asciiConversionCount, \* easter egg counter
  asciiText,            \* asciiText.value
  savedImage,           \* localStorage 'savedImage': a file, 0 when absent
  pending,              \* file reads and image decodes in flight
  ops,                  \* number of user operations so far
  conv,                 \* the last conversion: its mode and what it sampled
  since,                \* the operations completed since the last image load
  asciiRuns,            \* the ASCII conversions so far: parameters and results
  paintRuns,            \* the paint conversions without random draws so far
  lastOp,               \* the user operation requested last, where a specification records it
  orig,                 \* origWidth, origHeight of script.js
  calc                  \* input and result of the arithmetic specification

vars == <<loadedImage, exportCanvas, originalCanvas, originalImageData, historyStack,
          undoDisabled, asciiConversionCount, asciiText, savedImage, pending, ops,
          conv, since, asciiRuns, paintRuns, lastOp, orig, calc>>

appVars == <<loadedImage, exportCanvas, originalCanvas, originalImageData, historyStack,
             undoDisabled, asciiConversionCount, asciiText, savedImage, pending, ops,
             conv, since, asciiRuns, paintRuns, lastOp, orig>>

(***************************************************************************)
(* V1 converters (src/unnamed/part_000, lines 1-981) as functions of the   *)
(* two canvases.  Each yields the new export canvas, the new original      *)
(* canvas, the text handed to the textarea, and what was sampled.          *)
(***************************************************************************)
CellOrder(cols, rows) == [k \in 1..(cols * rows) |-> <<(k - 1) % cols, (k - 1) \div cols>>]

\* the glyphs fillText anchors at pixel (x0, y0), in drawing order
GlyphsAt(x0, y0, samples, cols, rows, charW, charH) ==
  LET order == CellOrder(cols, rows)
      here == SelectSeq(order, LAMBDA cell : cell[1] * charW = x0 /\ cell[2] * charH = y0)
  IN [k \in DOMAIN here |-> charAt(charIndex(samples[here[k]]))]

\* the pixel at (x0, y0) after the glyph loop: base with the glyphs anchored there
AsciiPixel(base, x0, y0, samples, cols, rows, charW, charH, fontSize) ==
  LET glyphs == GlyphsAt(x0, y0, samples, cols, rows, charW, charH)
  IN IF glyphs = <<>> THEN base
     ELSE [base EXCEPT !.ink = base.ink \o glyphs, !.fs = fontSize]

\* clearRect + fillRect('#fff') on (0, 0, origWidth, origHeight), then the glyph loop
AsciiDraw(canvas, origWidth, origHeight, samples, cols, rows, charW, charH, fontSize) ==
  [w |-> canvas.w, h |-> canvas.h,
   px |-> [i \in 1..(canvas.w * canvas.h) |->
     LET x0 == (i - 1) % canvas.w
         y0 == (i - 1) \div canvas.w
         base == IF x0 < origWidth /\ y0 < origHeight
                 THEN PlainPixel(WhiteRGBA) ELSE canvas.px[i]
     IN AsciiPixel(base, x0, y0, samples, cols, rows, charW, charH, fontSize)]]

\* the fillText calls of the glyph loop: cell (x, y) draws ch at (x * charW, y * charH)
FillTextCalls(samples, cols, rows, charW, charH) ==
  [cell \in Cells(cols, rows) |->
     [ch |-> charAt(charIndex(samples[cell])), x |-> cell[1] * charW, y |-> cell[2] * charH]]

\* a plausible slip: the text built from the mirrored column
AsciiOutMirrored(samples, cols, rows) ==
  [i \in 1..(rows * (cols + 1)) |->
     LET x == (i - 1) % (cols + 1)
         y == (i - 1) \div (cols + 1)
     IN IF x = cols THEN "\n" ELSE charAt(charIndex(samples[<<cols - 1 - x, y>>]))]

\* asciiOut: the glyphs row by row, a line break after each row
AsciiOut(samples, cols, rows) ==
  [i \in 1..(rows * (cols + 1)) |->
     LET x == (i - 1) % (cols + 1)
         y == (i - 1) \div (cols + 1)
     IN IF x = cols THEN "\n" ELSE charAt(charIndex(samples[<<x, y>>]))]

\* srcCanvas = originalCanvas.width > 0 ? originalCanvas : exportCanvas
SrcName(original) == IF original.w > 0 THEN "originalCanvas" ELSE "exportCanvas"
SrcCanvas(export, original) == IF original.w > 0 THEN original ELSE export

\* cols = Number(cols) || 120
ColsOf(colsInput) == IF colsInput = 0 THEN DefaultCols ELSE colsInput

convertToASCII(fontSize, colsInput, export, original) ==
  LET cols == ColsOf(colsInput)
      srcCanvas == SrcCanvas(export, original)
      origWidth == srcCanvas.w
      origHeight == srcCanvas.h
      rows == asciiRows(cols, origWidth, origHeight)
      samples == Sample(srcCanvas, cols, rows)
      charW == charSize(origWidth, cols)
      charH == charSize(origHeight, rows)
  IN [exportCanvas |-> AsciiDraw(export, origWidth, origHeight, samples,
                                 cols, rows, charW, charH, fontSize),
      originalCanvas |-> original,
      asciiText |-> AsciiOut(samples, cols, rows),
      drawn |-> FillTextCalls(samples, cols, rows, charW, charH),
      src |-> SrcName(original),
      sampled |-> srcCanvas,
      samples |-> samples,
      cols |-> cols, rows |-> rows]

\* a plausible slip: no fallback for a falsy option
pixelSizeOfOptionNoDefault(num, den) == Max(2, MathRound(num, den))

\* pixelSize = Math.max(2, Math.round(opts.pixelSize || 8)) for the option num/den
pixelSizeOfOption(num, den) == IF num = 0 THEN 8 ELSE Max(2, MathRound(num, den))

\* the same for the integer values of the slider
PixelSizeOf(pixelSizeInput) == pixelSizeOfOption(pixelSizeInput, 1)

\* brushAlpha = opts.brushStrength || 0.7, in percent
BrushAlphaOf(brushStrength) == IF brushStrength = 0 THEN 70 ELSE brushStrength

RECURSIVE FillAll(_, _)
\* fillRect of each colour of the sequence in turn over an opaque pixel colour
FillAll(colours, under) ==
  IF colours = <<>> THEN under
  ELSE FillAll(Tail(colours), Over(Head(colours), under))

\* the painterly loop runs when one of these toggles is on
EffectsPass(opts) == opts.brush \/ opts.impression \/ opts.watercolor \/ opts.gallery

\* a plausible slip: the wash of a cell drawn before its daubs
CellLayersWashFirst(opts) ==
  IF ~EffectsPass(opts) THEN <<>>
  ELSE (IF opts.watercolor THEN <<"watercolor">> ELSE <<>>)
       \o (IF opts.brush THEN <<"brush">> ELSE <<>>)
       \o (IF opts.impression THEN <<"impression">> ELSE <<>>)

\* what the body of the painterly loop draws for one cell, in source order
CellLayers(opts) ==
  IF ~EffectsPass(opts) THEN <<>>
  ELSE (IF opts.brush THEN <<"brush">> ELSE <<>>)
       \o (IF opts.impression THEN <<"impression">> ELSE <<>>)
       \o (IF opts.watercolor THEN <<"watercolor">> ELSE <<>>)

\* a plausible slip: the texture tied to the gallery toggle alone
TextureDrawnGalleryOnly(opts) == opts.gallery

\* if (opts.gallery || opts.textureStrength)
TextureDrawn(opts) == opts.gallery \/ opts.textureStrength # 0

\* the strength of a layer in percent: brushAlpha, 0.9, 0.12, textureStrength
LayerStrength(layer, opts) ==
  CASE layer = "brush" -> BrushAlphaOf(opts.brushStrength)
    [] layer = "impression" -> 90
    [] layer = "watercolor" -> 12
    [] OTHER -> opts.textureStrength

\* the layers applyPaintEffects composites after the pixel layer, in source order
PaintLayers(opts, seed) ==
  LET layers == CellLayers(opts)
  IN [k \in DOMAIN layers |->
        <<layers[k], LayerStrength(layers[k], opts),
          IF layers[k] = "watercolor" THEN 0 ELSE seed>>]
     \o (IF TextureDrawn(opts)
        THEN << <<"texture", opts.textureStrength, seed>> >> ELSE <<>>)

\* alpha values are counted in units of 1 / (255 * 10000)
AlphaUnit == 255 * 10000

\* the alpha a layer fills a cell of alpha a (of 255) with:
\* a, a * brushAlpha, a * 0.9, 0.12 * (a + 0.2)
LayerAlpha(layer, a, opts) ==
  CASE layer = "pixel" -> a * 10000
    [] layer = "brush" -> a * BrushAlphaOf(opts.brushStrength) * 100
    [] layer = "impression" -> a * 9000
    [] OTHER -> 1200 * (a + 51)

\* the drawing operations of applyPaintEffects, in the order they are issued;
\* cell is <<>> for an operation on the whole surface
PaintOps(smallData, smallW, smallH, opts) ==
  LET order == CellOrder(smallW, smallH)
      layers == CellLayers(opts)
      n == Len(layers)
  IN << [layer |-> "background", cell |-> <<>>, alpha |-> AlphaUnit] >>
     \o (IF opts.pixel
          THEN [k \in DOMAIN order |->
                 [layer |-> "pixel", cell |-> order[k],
                  alpha |-> LayerAlpha("pixel", smallData[order[k]][4], opts)]]
          ELSE <<>>)
     \o [k \in 1..(Len(order) * n) |->
          LET cell == order[((k - 1) \div n) + 1]
              layer == layers[((k - 1) % n) + 1]
          IN [layer |-> layer, cell |-> cell,
              alpha |-> LayerAlpha(layer, smallData[cell][4], opts)]]
     \o (IF TextureDrawn(opts)
          THEN << [layer |-> "texture", cell |-> <<>>,
                   alpha |-> 255 * Min(9500, 3000 + 70 * opts.textureStrength)] >>
          ELSE <<>>)

\* the state of a 2d context that applyPaintEffects writes; a new context, and
\* one that nothing else has written, has the default values
NormalContext == [globalCompositeOperation |-> "source-over", globalAlpha |-> AlphaUnit]

\* a plausible slip: 'source-over' not restored after the wash
CellStatementsNoRestore(opts) ==
  (IF opts.brush
     THEN << [set |-> "globalCompositeOperation", to |-> "source-over"],
             [draw |-> "brush"] >>
     ELSE <<>>)
  \o (IF opts.impression THEN << [draw |-> "impression"] >> ELSE <<>>)
  \o (IF opts.watercolor
        THEN << [set |-> "globalCompositeOperation", to |-> "lighter"],
                [draw |-> "watercolor"] >>
        ELSE <<>>)

\* the statements of one pass of the painterly loop that write the context
\* state or draw, in source order
CellStatements(opts) ==
  (IF opts.brush
     THEN << [set |-> "globalCompositeOperation", to |-> "source-over"],
             [draw |-> "brush"] >>
     ELSE <<>>)
  \o (IF opts.impression THEN << [draw |-> "impression"] >> ELSE <<>>)
  \o (IF opts.watercolor
        THEN << [set |-> "globalCompositeOperation", to |-> "lighter"],
                [draw |-> "watercolor"],
                [set |-> "globalCompositeOperation", to |-> "source-over"] >>
        ELSE <<>>)

RECURSIVE Repeated(_, _)
\* n passes of a loop over the statements body
Repeated(body, n) == IF n = 0 THEN <<>> ELSE body \o Repeated(body, n - 1)

\* the statements of applyPaintEffects that write the context state or draw
PaintStatements(smallW, smallH, opts) ==
  << [draw |-> "background"] >>
  \o (IF opts.pixel THEN Repeated(<< [draw |-> "pixel"] >>, smallW * smallH) ELSE <<>>)
  \o (IF EffectsPass(opts)
        THEN Repeated(CellStatements(opts), smallW * smallH)
             \o << [set |-> "globalAlpha", to |-> AlphaUnit] >>
        ELSE <<>>)
  \o (IF TextureDrawn(opts)
        THEN << [set |-> "globalCompositeOperation", to |-> "overlay"],
                [set |-> "globalAlpha",
                 to |-> 255 * Min(9500, 3000 + 70 * opts.textureStrength)],
                [draw |-> "texture"],
                [set |-> "globalAlpha", to |-> AlphaUnit],
                [set |-> "globalCompositeOperation", to |-> "source-over"] >>
        ELSE <<>>)

RECURSIVE ContextRun(_, _, _)
\* the statements run on a context in state ctx: each drawing is composited
\* with the state current when it is issued
ContextRun(stmts, ctx, drawn) ==
  IF stmts = <<>> THEN [ctx |-> ctx, drawn |-> drawn]
  ELSE LET st == Head(stmts)
       IN IF "draw" \in DOMAIN st
          THEN ContextRun(Tail(stmts), ctx,
                          Append(drawn, [layer |-> st.draw,
                                         globalCompositeOperation |-> ctx.globalCompositeOperation,
                                         globalAlpha |-> ctx.globalAlpha]))
          ELSE ContextRun(Tail(stmts), [ctx EXCEPT ![st.set] = st.to], drawn)

\* exportCtx.fillRect(x*pixelSize, y*pixelSize, pixelSize, pixelSize) of script.js
ScriptPixelRect(x, y, smallW, smallH, pixelSize, canvasWidth, canvasHeight) ==
  [x |-> x * pixelSize, y |-> y * pixelSize, w |-> pixelSize, h |-> pixelSize]

\* the drawing of the paint layers; stretch tells the rectangle rule of the
\* pixel layer: edge-stretched (applyPaintEffects) or fixed (script.js)
PaintDraw(stretch, canvas, smallData, smallW, smallH, pixelSize, opts, seed) ==
  LET canvasWidth == canvas.w
      canvasHeight == canvas.h
      order == CellOrder(smallW, smallH)
      layers == PaintLayers(opts, seed)
      cellDrawn == opts.brush \/ opts.impression \/ opts.watercolor
  IN [w |-> canvasWidth, h |-> canvasHeight,
      px |-> [i \in 1..(canvasWidth * canvasHeight) |->
        LET x0 == (i - 1) % canvasWidth
            y0 == (i - 1) \div canvasWidth
            covering == SelectSeq(order, LAMBDA cell :
                          RectCovers(IF stretch
                                     THEN PixelRect(cell[1], cell[2], smallW, smallH,
                                                    pixelSize, canvasWidth, canvasHeight)
                                     ELSE ScriptPixelRect(cell[1], cell[2], smallW, smallH,
                                                          pixelSize, canvasWidth, canvasHeight),
                                     x0, y0))
            rects == [k \in DOMAIN covering |-> smallData[covering[k]]]
            near == <<Min(x0 \div pixelSize, smallW - 1), Min(y0 \div pixelSize, smallH - 1)>>
        IN [c |-> IF opts.pixel THEN FillAll(rects, WhiteRGBA) ELSE WhiteRGBA,
            ink |-> <<>>, fs |-> 0,
            fc |-> IF cellDrawn THEN smallData[near] ELSE ClearRGBA,
            fx |-> layers]]]

applyPaintEffects(canvas, smallData, smallW, smallH, pixelSize, opts, seed) ==
  PaintDraw(TRUE, canvas, smallData, smallW, smallH, pixelSize, opts, seed)

\* a plausible slip: painting onto the canvas that was sampled
convertToPaintOntoSource(opts, seed, export, original) ==
  LET srcCanvas == SrcCanvas(export, original)
      pixelSize == PixelSizeOf(opts.pixelSize)
      smallW == smallSize(srcCanvas.w, pixelSize)
      smallH == smallSize(srcCanvas.h, pixelSize)
      smallData == Sample(srcCanvas, smallW, smallH)
      painted == applyPaintEffects(srcCanvas, smallData, smallW, smallH, pixelSize, opts, seed)
  IN [exportCanvas |-> export,
      originalCanvas |-> painted,
      src |-> SrcName(original),
      sampled |-> srcCanvas,
      samples |-> smallData,
      cols |-> smallW, rows |-> smallH]

convertToPaint(opts, seed, export, original) ==
  LET srcCanvas == SrcCanvas(export, original)
      pixelSize == PixelSizeOf(opts.pixelSize)
      smallW == smallSize(srcCanvas.w, pixelSize)
      smallH == smallSize(srcCanvas.h, pixelSize)
      smallData == Sample(srcCanvas, smallW, smallH)
  IN [exportCanvas |-> applyPaintEffects(export, smallData, smallW, smallH, pixelSize, opts, seed),
      originalCanvas |-> original,
      src |-> SrcName(original),
      sampled |-> srcCanvas,
      samples |-> smallData,
      cols |-> smallW, rows |-> smallH]

(***************************************************************************)
(* Spec: the V1 application (src/unnamed/part_000, lines 1-981)            *)
(***************************************************************************)
MAX_HISTORY == 12

\* user operations per behaviour
MaxOps == 4
\* outcomes of the Math.random() draws of one paint conversion
MaxSeed == 1

FontSizes == {8}
ColsInputs == {2, 3}

PaintOptionSets ==
  { [pixel |-> TRUE, brush |-> FALSE, gallery |-> FALSE, impression |-> FALSE,
     watercolor |-> FALSE, pixelSize |-> 2, brushStrength |-> 70, textureStrength |-> 0],
    [pixel |-> FALSE, brush |-> TRUE, gallery |-> FALSE, impression |-> TRUE,
     watercolor |-> TRUE, pixelSize |-> 2, brushStrength |-> 50, textureStrength |-> 30] }

IsRandom(opts) ==
  opts.brush \/ opts.impression \/ opts.gallery \/ opts.textureStrength # 0

Seeds(opts) == IF IsRandom(opts) THEN 0..MaxSeed ELSE {0}

\* only the pixel layer is active: the other toggles off and no texture
PixelOnly(opts) ==
  /\ opts.pixel /\ ~opts.brush /\ ~opts.gallery /\ ~opts.impression /\ ~opts.watercolor
  /\ opts.textureStrength = 0

\* lastOp before any request
NoOp == [kind |-> "none", f |-> 0, prev |-> "none", before |-> NewCanvas]

\* conv before the first conversion on an image; out is the surface the last
\* conversion produced, egg whether it triggered the easter egg
NoConv == [mode |-> "none", src |-> "none", pristine |-> TRUE, n |-> 0, pixelOnly |-> FALSE,
           out |-> NewCanvas, egg |-> FALSE]

Remove(seq, i) == [k \in 1..(Len(seq) - 1) |-> IF k < i THEN seq[k] ELSE seq[k + 1]]

\* loadStaticImage(dataURL): starts the decode
LoadEntry(f) == [kind |-> "load", f |-> f, url |-> FileDataURL(f)]

\* initializeApp: restores the image saved by an earlier session
SavedAtStart == {0, 1}

Init ==
  /\ loadedImage = 0
  /\ exportCanvas = NewCanvas
  /\ originalCanvas = NewCanvas
  /\ originalImageData = NoData
  /\ historyStack = <<>>
  /\ undoDisabled = TRUE
  /\ asciiConversionCount = 0
  /\ asciiText = <<>>
  /\ savedImage \in SavedAtStart
  /\ pending = IF savedImage # 0 THEN <<LoadEntry(savedImage)>> ELSE <<>>
  /\ ops = 0
  /\ conv = NoConv
  /\ since = {}
  /\ asciiRuns = {}
  /\ paintRuns = {}
  /\ lastOp = NoOp
  /\ orig = [w |-> 0, h |-> 0]
  /\ calc = [op |-> "none"]

\* handleFile(file): validates the type and starts the read
DoHandleFile(f) ==
  /\ ops' = ops + 1
  /\ pending' = IF FileIsImage(f)
                THEN Append(pending, [kind |-> "read", f |-> f, url |-> NoData])
                ELSE pending
  /\ UNCHANGED <<loadedImage, exportCanvas, originalCanvas, originalImageData, historyStack,
                 undoDisabled, asciiConversionCount, asciiText, savedImage,
                 conv, since, asciiRuns, paintRuns, orig, calc>>

HandleFile(f) == ops < MaxOps /\ DoHandleFile(f) /\ UNCHANGED lastOp

\* reader.onload: clears the history, starts the decode, saves the data URL
ReaderOnload(i) ==
  /\ pending[i].kind = "read"
  /\ historyStack' = <<>>
  /\ undoDisabled' = TRUE
  /\ pending' = Append(Remove(pending, i), LoadEntry(pending[i].f))
  /\ savedImage' = pending[i].f
  /\ UNCHANGED <<loadedImage, exportCanvas, originalCanvas, originalImageData,
                 asciiConversionCount, asciiText, ops, conv, since, asciiRuns, paintRuns, lastOp, orig, calc>>

\* a plausible slip: no check of the decoded dimensions
LoadOnloadUnchecked(i) ==
  /\ pending[i].kind = "load"
  /\ pending' = Remove(pending, i)
  /\ LET img == Decode(pending[i].url)
     IN /\ loadedImage' = pending[i].f
        /\ exportCanvas' = img
        /\ originalCanvas' = img
        /\ originalImageData' = toDataURL(exportCanvas')
        /\ conv' = NoConv
        /\ since' = {}
  /\ UNCHANGED <<historyStack, undoDisabled, asciiConversionCount, asciiText, savedImage,
                 ops, asciiRuns, paintRuns, lastOp, orig, calc>>

\* img.onload of loadStaticImage
LoadOnload(i) ==
  /\ pending[i].kind = "load"
  /\ pending' = Remove(pending, i)
  /\ LET img == Decode(pending[i].url)
     IN IF img.w = 0 \/ img.h = 0
        THEN UNCHANGED <<loadedImage, exportCanvas, originalCanvas, originalImageData,
                         conv, since>>
        ELSE /\ loadedImage' = pending[i].f
             /\ exportCanvas' = img
             /\ originalCanvas' = img
             /\ originalImageData' = toDataURL(exportCanvas')
             /\ conv' = NoConv
             /\ since' = {}
  /\ UNCHANGED <<historyStack, undoDisabled, asciiConversionCount, asciiText, savedImage,
                 ops, asciiRuns, paintRuns, lastOp, orig, calc>>

\* a plausible slip: the counter not restarted after the trigger
checkEasterEggNoRestart(count) == count + 1

\* checkEasterEgg: the counter it leaves
checkEasterEgg(count) == IF count + 1 = 10 THEN 0 ELSE count + 1

\* checkEasterEgg: whether it calls triggerEasterEgg
EggTriggered(count) == count + 1 = 10

\* a plausible slip: the newest snapshot dropped instead of the oldest
PushHistoryDropNewest(stack, snapshot) ==
  LET pushed == Append(stack, snapshot)
  IN IF Len(pushed) > MAX_HISTORY THEN SubSeq(pushed, 1, MAX_HISTORY) ELSE pushed

\* the history push of convert()
PushHistory(stack, snapshot) ==
  LET pushed == Append(stack, snapshot)
  IN IF Len(pushed) > MAX_HISTORY THEN Tail(pushed) ELSE pushed

\* a plausible slip: the snapshot pushed before the check of loadedImage
ConvertRejectedAfterPush ==
  /\ historyStack' = PushHistory(historyStack, toDataURL(exportCanvas))
  /\ undoDisabled' = FALSE
  /\ since' = since \cup {"rejected"}
  /\ UNCHANGED <<exportCanvas, originalCanvas, asciiConversionCount, asciiText, conv,
                 asciiRuns, paintRuns>>

\* if (!loadedImage) { alert(...); return; }
ConvertRejected ==
  /\ since' = since \cup {"rejected"}
  /\ UNCHANGED <<exportCanvas, originalCanvas, historyStack, undoDisabled,
                 asciiConversionCount, asciiText, conv, asciiRuns, paintRuns>>

\* convert(): the click on convertBtn, with the values of the controls
\* (r is the result of the one conversion the click runs)
DoConvert(mode, fontSize, colsInput, opts, seed) ==
  /\ ops' = ops + 1
  /\ IF loadedImage = 0
     THEN ConvertRejected
     ELSE \E r \in {IF mode = "ascii"
                     THEN convertToASCII(fontSize, colsInput, exportCanvas, originalCanvas)
                     ELSE convertToPaint(opts, seed, exportCanvas, originalCanvas)} :
             /\ historyStack' = PushHistory(historyStack, toDataURL(exportCanvas))
             /\ undoDisabled' = FALSE
             /\ exportCanvas' = r.exportCanvas
             /\ originalCanvas' = r.originalCanvas
             /\ conv' = [mode |-> mode, src |-> r.src,
                         pristine |-> (r.sampled = FileBitmap(loadedImage)),
                         n |-> conv.n + 1,
                         pixelOnly |-> (mode = "paint" /\ PixelOnly(opts)),
                         out |-> r.exportCanvas,
                         egg |-> (mode = "ascii" /\ EggTriggered(asciiConversionCount))]
             /\ since' = since \cup {mode}
             /\ IF mode = "ascii"
                THEN /\ asciiConversionCount' = checkEasterEgg(asciiConversionCount)
                     /\ asciiText' = r.asciiText
                     /\ asciiRuns' = asciiRuns \cup
                          {[img |-> loadedImage, cols |-> colsInput, fontSize |-> fontSize,
                            text |-> r.asciiText, out |-> r.exportCanvas]}
                     /\ UNCHANGED paintRuns
                ELSE /\ paintRuns' = IF IsRandom(opts) THEN paintRuns
                                     ELSE paintRuns \cup {[img |-> loadedImage, opts |-> opts,
                                                           out |-> r.exportCanvas]}
                     /\ UNCHANGED <<asciiConversionCount, asciiText, asciiRuns>>
  /\ UNCHANGED <<loadedImage, originalImageData, savedImage, pending, orig, calc>>

Convert(mode, fontSize, colsInput, opts, seed) ==
  /\ ops < MaxOps
  /\ DoConvert(mode, fontSize, colsInput, opts, seed)
  /\ UNCHANGED lastOp

ConvertAscii ==
  \E fontSize \in FontSizes, colsInput \in ColsInputs :
    Convert("ascii", fontSize, colsInput, CHOOSE o \in PaintOptionSets : TRUE, 0)

ConvertPaint ==
  \E opts \in PaintOptionSets : \E seed \in Seeds(opts) :
    Convert("paint", 0, 0, opts, seed)

\* a plausible slip: the oldest snapshot decoded instead of the popped one
DoUndoClickOldest ==
  /\ ~undoDisabled
  /\ ops' = ops + 1
  /\ IF Len(historyStack) = 0
     THEN UNCHANGED <<historyStack, pending>>
     ELSE /\ historyStack' = SubSeq(historyStack, 1, Len(historyStack) - 1)
          /\ pending' = Append(pending, [kind |-> "undo", f |-> 0,
                                         url |-> historyStack[1]])
  /\ UNCHANGED <<loadedImage, exportCanvas, originalCanvas, originalImageData, undoDisabled,
                 asciiConversionCount, asciiText, savedImage, conv, since, asciiRuns,
                 paintRuns, orig, calc>>

\* the click on undoBtn (a disabled button receives no click)
DoUndoClick ==
  /\ ~undoDisabled
  /\ ops' = ops + 1
  /\ IF Len(historyStack) = 0
     THEN UNCHANGED <<historyStack, pending>>
     ELSE /\ historyStack' = SubSeq(historyStack, 1, Len(historyStack) - 1)
          /\ pending' = Append(pending, [kind |-> "undo", f |-> 0,
                                         url |-> historyStack[Len(historyStack)]])
  /\ UNCHANGED <<loadedImage, exportCanvas, originalCanvas, originalImageData, undoDisabled,
                 asciiConversionCount, asciiText, savedImage, conv, since, asciiRuns,
                 paintRuns, orig, calc>>

UndoClick == ops < MaxOps /\ DoUndoClick /\ UNCHANGED lastOp

\* img.onload of the undo handler
UndoOnload(i) ==
  /\ pending[i].kind = "undo"
  /\ pending' = Remove(pending, i)
  /\ exportCanvas' = Decode(pending[i].url)
  /\ undoDisabled' = IF Len(historyStack) = 0 THEN TRUE ELSE undoDisabled
  /\ since' = since \cup {"undo"}
  /\ UNCHANGED <<loadedImage, originalCanvas, originalImageData, historyStack,
                 asciiConversionCount, asciiText, savedImage, ops, conv, asciiRuns, paintRuns, lastOp, orig, calc>>

\* resetToOriginal(): the click on resetBtn
DoResetClick ==
  /\ ops' = ops + 1
  /\ asciiConversionCount' = 0
  /\ pending' = IF originalImageData = NoData
                THEN pending
                ELSE Append(pending, [kind |-> "reset", f |-> 0, url |-> originalImageData])
  /\ UNCHANGED <<loadedImage, exportCanvas, originalCanvas, originalImageData, historyStack,
                 undoDisabled, asciiText, savedImage, conv, since, asciiRuns, paintRuns,
                 orig, calc>>

ResetClick == ops < MaxOps /\ DoResetClick /\ UNCHANGED lastOp

\* img.onload of resetToOriginal
ResetOnload(i) ==
  /\ pending[i].kind = "reset"
  /\ pending' = Remove(pending, i)
  /\ exportCanvas' = Decode(pending[i].url)
  /\ historyStack' = <<>>
  /\ undoDisabled' = TRUE
  /\ since' = since \cup {"reset"}
  /\ UNCHANGED <<loadedImage, originalCanvas, originalImageData, asciiConversionCount,
                 asciiText, savedImage, ops, conv, asciiRuns, paintRuns, lastOp, orig, calc>>

Next ==
  \/ \E f \in Files : HandleFile(f)
  \/ \E i \in DOMAIN pending : ReaderOnload(i)
  \/ \E i \in DOMAIN pending : LoadOnload(i)
  \/ ConvertAscii
  \/ ConvertPaint
  \/ UndoClick
  \/ \E i \in DOMAIN pending : UndoOnload(i)
  \/ ResetClick
  \/ \E i \in DOMAIN pending : ResetOnload(i)

Spec == Init /\ [][Next]_vars

(***************************************************************************)
(* SpecHistory: the V1 application under a long run of Convert clicks on   *)
(* the image restored at start                                             *)
(***************************************************************************)
\* Convert clicks per behaviour
MaxConversions == 13

InitHistory == Init /\ savedImage # 0

HistoryConvertAscii ==
  /\ ops < MaxConversions
  /\ DoConvert("ascii", 8, 2, CHOOSE o \in PaintOptionSets : TRUE, 0)
  /\ UNCHANGED lastOp

HistoryConvertPaint ==
  /\ ops < MaxConversions
  /\ \E opts \in {o \in PaintOptionSets : PixelOnly(o)} : DoConvert("paint", 0, 0, opts, 0)
  /\ UNCHANGED lastOp

NextHistory ==
  \/ \E i \in DOMAIN pending : LoadOnload(i)
  \/ HistoryConvertAscii
  \/ HistoryConvertPaint

SpecHistory == InitHistory /\ [][NextHistory]_vars

(***************************************************************************)
(* SpecOrder: the V1 application with the operation requested last         *)
(* recorded in lastOp                                                      *)
(***************************************************************************)
\* user operations per behaviour
MaxOrderOps == 3

\* the record of a request: its kind, the file chosen, the kind of the request
\* before it, and the Output Surface before the last Convert request
Requested(kind, f) ==
  lastOp' = [kind |-> kind, f |-> f, prev |-> lastOp.kind,
             before |-> IF kind = "convert" THEN exportCanvas ELSE lastOp.before]

OrderHandleFile ==
  ops < MaxOrderOps /\ \E f \in Files : DoHandleFile(f) /\ Requested("file", f)

OrderConvertAscii ==
  /\ ops < MaxOrderOps
  /\ DoConvert("ascii", 8, 2, CHOOSE o \in PaintOptionSets : TRUE, 0)
  /\ Requested("convert", 0)

OrderConvertPaint ==
  /\ ops < MaxOrderOps
  /\ \E opts \in {o \in PaintOptionSets : PixelOnly(o)} : DoConvert("paint", 0, 0, opts, 0)
  /\ Requested("convert", 0)

OrderUndoClick == ops < MaxOrderOps /\ DoUndoClick /\ Requested("undo", 0)

OrderResetClick == ops < MaxOrderOps /\ DoResetClick /\ Requested("reset", 0)

NextOrder ==
  \/ OrderHandleFile
  \/ \E i \in DOMAIN pending : ReaderOnload(i)
  \/ \E i \in DOMAIN pending : LoadOnload(i)
  \/ OrderConvertAscii
  \/ OrderConvertPaint
  \/ OrderUndoClick
  \/ \E i \in DOMAIN pending : UndoOnload(i)
  \/ OrderResetClick
  \/ \E i \in DOMAIN pending : ResetOnload(i)

SpecOrder == Init /\ [][NextOrder]_vars

(***************************************************************************)
(* SpecEgg: the V1 application through a run of ASCII conversions on the   *)
(* image restored at start, followed by operations of every kind           *)
(***************************************************************************)
\* user operations per behaviour
MaxEggOps == 12

\* the clicks other than ASCII Convert come once the counter nears the trigger
EggOthers == ops >= 8 /\ ops < MaxEggOps /\ pending = <<>>

EggConvertAscii ==
  /\ ops < MaxEggOps
  /\ DoConvert("ascii", 8, 2, CHOOSE o \in PaintOptionSets : TRUE, 0)
  /\ UNCHANGED lastOp

EggConvertPaint ==
  /\ EggOthers
  /\ \E opts \in {o \in PaintOptionSets : PixelOnly(o)} : DoConvert("paint", 0, 0, opts, 0)
  /\ UNCHANGED lastOp

EggHandleFile == EggOthers /\ DoHandleFile(2) /\ UNCHANGED lastOp

EggUndoClick == EggOthers /\ DoUndoClick /\ UNCHANGED lastOp

EggResetClick == EggOthers /\ DoResetClick /\ UNCHANGED lastOp

NextEgg ==
  \/ EggHandleFile
  \/ \E i \in DOMAIN pending : ReaderOnload(i)
  \/ \E i \in DOMAIN pending : LoadOnload(i)
  \/ EggConvertAscii
  \/ EggConvertPaint
  \/ EggUndoClick
  \/ \E i \in DOMAIN pending : UndoOnload(i)
  \/ EggResetClick
  \/ \E i \in DOMAIN pending : ResetOnload(i)

SpecEgg == InitHistory /\ [][NextEgg]_vars

(***************************************************************************)
(* SpecUndo: the V1 application with each file choice, Convert click and   *)
(* Undo click made once the callbacks of the one before have run           *)
(***************************************************************************)
\* user operations per behaviour
MaxSeqOps == 9

Settled == ops < MaxSeqOps /\ pending = <<>>

SeqHandleFile == Settled /\ \E f \in {1, 2} : DoHandleFile(f) /\ Requested("file", f)

SeqConvertAscii ==
  /\ Settled
  /\ DoConvert("ascii", 8, 2, CHOOSE o \in PaintOptionSets : TRUE, 0)
  /\ Requested("convert", 0)

SeqConvertPaint ==
  /\ Settled
  /\ \E opts \in {o \in PaintOptionSets : PixelOnly(o)} : DoConvert("paint", 0, 0, opts, 0)
  /\ Requested("convert", 0)

SeqUndoClick == Settled /\ DoUndoClick /\ Requested("undo", 0)

NextUndo ==
  \/ SeqHandleFile
  \/ \E i \in DOMAIN pending : ReaderOnload(i)
  \/ \E i \in DOMAIN pending : LoadOnload(i)
  \/ SeqConvertAscii
  \/ SeqConvertPaint
  \/ SeqUndoClick
  \/ \E i \in DOMAIN pending : UndoOnload(i)

SpecUndo == Init /\ [][NextUndo]_vars

(***************************************************************************)
(* SpecScript: the application of src/script.js                            *)
(***************************************************************************)
PREVIEW_W == 800
PREVIEW_H == 600

ScriptFiles == {1, 2, 4}

\* drawImage(src, 0, 0, src.w, src.h, 0, 0, w, h): the pixel under each centre
ScaledPixelSource(x0, y0, srcW, srcH, w, h) ==
  <<MathFloor((2 * x0 + 1) * srcW, 2 * w), MathFloor((2 * y0 + 1) * srcH, 2 * h)>>

ScriptConvertToASCII(fontSize, export, origWidth, origHeight) ==
  LET charW == MathRound(fontSize * 6, 10)
      charH == MathRound(fontSize, 1)
      cols == Max(MathFloor(origWidth, charW), 20)
      rows == Max(MathFloor(origHeight, charH), 20)
      samples == Sample(export, cols, rows)
      asciiW == cols * charW
      asciiH == rows * charH
  IN [exportCanvas |->
        [w |-> origWidth, h |-> origHeight,
         px |-> [i \in 1..(origWidth * origHeight) |->
           LET at == ScaledPixelSource((i - 1) % origWidth, (i - 1) \div origWidth,
                                       asciiW, asciiH, origWidth, origHeight)
           IN AsciiPixel(PlainPixel(WhiteRGBA), at[1], at[2], samples,
                         cols, rows, charW, charH, fontSize)]],
      src |-> "exportCanvas",
      sampled |-> export,
      samples |-> samples,
      cols |-> cols, rows |-> rows]

ScriptConvertToPaint(img, opts, seed, origWidth, origHeight) ==
  LET pixelSize == PixelSizeOf(opts.pixelSize)
      smallW == smallSize(origWidth, pixelSize)
      smallH == smallSize(origHeight, pixelSize)
      smallData == Sample(img, smallW, smallH)
      blank == [w |-> origWidth, h |-> origHeight, px |-> <<>>]
  IN [exportCanvas |-> PaintDraw(FALSE, blank, smallData, smallW, smallH,
                                 pixelSize, opts, seed),
      src |-> "loadedImage",
      sampled |-> img,
      samples |-> smallData,
      cols |-> smallW, rows |-> smallH]

InitScript ==
  /\ loadedImage = 0
  /\ exportCanvas = NewCanvas
  /\ originalCanvas = NewCanvas
  /\ originalImageData = NoData
  /\ historyStack = <<>>
  /\ undoDisabled = TRUE
  /\ asciiConversionCount = 0
  /\ asciiText = <<>>
  /\ savedImage \in SavedAtStart
  /\ pending = IF savedImage # 0 THEN <<LoadEntry(savedImage)>> ELSE <<>>
  /\ ops = 0
  /\ conv = NoConv
  /\ since = {}
  /\ asciiRuns = {}
  /\ paintRuns = {}
  /\ lastOp = NoOp
  /\ orig = [w |-> PREVIEW_W, h |-> PREVIEW_H]
  /\ calc = [op |-> "none"]

scriptUnused == <<originalCanvas, originalImageData, historyStack, undoDisabled,
                  asciiConversionCount, asciiText, asciiRuns, paintRuns, lastOp, calc>>

\* handleFile(file): starts the read
ScriptHandleFile(f) ==
  /\ ops < MaxOps
  /\ ops' = ops + 1
  /\ pending' = Append(pending, [kind |-> "read", f |-> f, url |-> NoData])
  /\ UNCHANGED <<loadedImage, exportCanvas, savedImage, conv, since, orig>>
  /\ UNCHANGED scriptUnused

\* reader.onload: saves the data URL, starts the decode
ScriptReaderOnload(i) ==
  /\ pending[i].kind = "read"
  /\ savedImage' = pending[i].f
  /\ pending' = Append(Remove(pending, i), LoadEntry(pending[i].f))
  /\ UNCHANGED <<loadedImage, exportCanvas, ops, conv, since, orig>>
  /\ UNCHANGED scriptUnused

\* img.onload of loadFromDataURL
ScriptLoadOnload(i) ==
  /\ pending[i].kind = "load"
  /\ FileIsImage(pending[i].f)
  /\ pending' = Remove(pending, i)
  /\ loadedImage' = pending[i].f
  /\ orig' = [w |-> Decode(pending[i].url).w, h |-> Decode(pending[i].url).h]
  /\ exportCanvas' = Decode(pending[i].url)
  /\ conv' = NoConv
  /\ since' = {}
  /\ UNCHANGED <<savedImage, ops>>
  /\ UNCHANGED scriptUnused

\* img.onerror of loadFromDataURL
ScriptLoadOnerror(i) ==
  /\ pending[i].kind = "load"
  /\ ~FileIsImage(pending[i].f)
  /\ pending' = Remove(pending, i)
  /\ UNCHANGED <<loadedImage, exportCanvas, savedImage, ops, conv, since, orig>>
  /\ UNCHANGED scriptUnused

\* convert(): the click on convertBtn
\* (r is the result of the one conversion the click runs)
ScriptConvert(mode, fontSize, opts, seed) ==
  /\ ops < MaxOps
  /\ ops' = ops + 1
  /\ IF loadedImage = 0
     THEN UNCHANGED <<exportCanvas, conv, since>>
     ELSE \E r \in {IF mode = "ascii"
                     THEN ScriptConvertToASCII(fontSize, exportCanvas, orig.w, orig.h)
                     ELSE ScriptConvertToPaint(FileBitmap(loadedImage), opts, seed,
                                               orig.w, orig.h)} :
             /\ exportCanvas' = r.exportCanvas
             /\ conv' = [mode |-> mode, src |-> r.src,
                         pristine |-> (r.sampled = FileBitmap(loadedImage)),
                         n |-> conv.n + 1,
                         pixelOnly |-> (mode = "paint" /\ PixelOnly(opts)),
                         out |-> r.exportCanvas, egg |-> FALSE]
             /\ since' = since \cup {mode}
  /\ UNCHANGED <<loadedImage, savedImage, pending, orig>>
  /\ UNCHANGED scriptUnused

ScriptConvertAscii ==
  \E fontSize \in FontSizes :
    ScriptConvert("ascii", fontSize, CHOOSE o \in PaintOptionSets : TRUE, 0)

ScriptConvertPaint ==
  \E opts \in PaintOptionSets : \E seed \in Seeds(opts) :
    ScriptConvert("paint", 0, opts, seed)

\* the click on clearSavedBtn
ScriptClearSaved ==
  /\ ops < MaxOps
  /\ ops' = ops + 1
  /\ savedImage' = 0
  /\ loadedImage' = 0
  /\ UNCHANGED <<exportCanvas, pending, conv, since, orig>>
  /\ UNCHANGED scriptUnused

NextScript ==
  \/ \E f \in ScriptFiles : ScriptHandleFile(f)
  \/ \E i \in DOMAIN pending : ScriptReaderOnload(i)
  \/ \E i \in DOMAIN pending : ScriptLoadOnload(i)
  \/ \E i \in DOMAIN pending : ScriptLoadOnerror(i)
  \/ ScriptConvertAscii
  \/ ScriptConvertPaint
  \/ ScriptClearSaved

SpecScript == InitScript /\ [][NextScript]_vars

(***************************************************************************)
(* SpecGrid: the arithmetic on bounded inputs                              *)
(***************************************************************************)
Levels == {(k * 255) \div LevelSteps : k \in 0..LevelSteps}
Colours == Levels \X Levels \X Levels

\* small bitmaps, and the documented example: 1600 x 1000 at 120 columns
AsciiWidths == (1..MaxDim) \cup {1600}
AsciiHeights == (1..MaxDim) \cup {1000}
AsciiColumns == (1..MaxCols) \cup {DefaultCols}

\* values of the cell-size option, as fractions num/den: zero, negative,
\* fractional and integer ones
CellSizeOptions == {<<num, den>> : num \in (0 - 2 * MaxCell)..(2 * MaxCell), den \in {1, 2, 4}}

\* the paint controls: every combination of the toggles, slider values in percent
PaintControls ==
  [pixel : BOOLEAN, brush : BOOLEAN, gallery : BOOLEAN, impression : BOOLEAN,
   watercolor : BOOLEAN, pixelSize : {2}, brushStrength : {0, 50, 100},
   textureStrength : {0, 30}]
CellAlphas == {0, 128, 255}

\* values of the column-count input: negative, zero, small and regular ones
ColsInputValues == ((0 - MaxCols)..MaxCols) \cup {19, 20, 21, DefaultCols}

InitCalc ==
  \/ \E colsInput \in ColsInputValues : calc = [op |-> "colsinput", colsInput |-> colsInput]
  \/ \E f \in {1, 2}, colsInput \in 1..MaxCols, fontSize \in FontSizes :
       calc = [op |-> "image", f |-> f, colsInput |-> colsInput, fontSize |-> fontSize]
  \/ \E smallW \in 1..2, smallH \in 1..2, a \in CellAlphas, opts \in PaintControls :
       calc = [op |-> "effects", smallW |-> smallW, smallH |-> smallH, a |-> a, opts |-> opts]
  \/ \E W \in 1..MaxDim, H \in 1..MaxDim, o \in CellSizeOptions :
       calc = [op |-> "option", W |-> W, H |-> H, num |-> o[1], den |-> o[2]]
  \/ \E c1 \in Colours, c2 \in Colours : calc = [op |-> "cells", c1 |-> c1, c2 |-> c2]
  \/ \E W \in AsciiWidths, H \in AsciiHeights, cols \in AsciiColumns :
       calc = [op |-> "bitmap", W |-> W, H |-> H, cols |-> cols]
  \/ \E W \in 1..MaxDim, H \in 1..MaxDim, ps \in 2..MaxCell :
       calc = [op |-> "surface", W |-> W, H |-> H, pixelSize |-> ps]

InitGrid ==
  /\ loadedImage = 0
  /\ exportCanvas = NewCanvas
  /\ originalCanvas = NewCanvas
  /\ originalImageData = NoData
  /\ historyStack = <<>>
  /\ undoDisabled = TRUE
  /\ asciiConversionCount = 0
  /\ asciiText = <<>>
  /\ savedImage = 0
  /\ pending = <<>>
  /\ ops = 0
  /\ conv = NoConv
  /\ since = {}
  /\ asciiRuns = {}
  /\ paintRuns = {}
  /\ lastOp = NoOp
  /\ orig = [w |-> 0, h |-> 0]
  /\ InitCalc

\* the inner loop body of convertToASCII on two sampled cells
AsciiCells ==
  /\ calc.op = "cells"
  /\ calc' = [op |-> "glyphs", c1 |-> calc.c1, c2 |-> calc.c2,
              i1 |-> charIndex(calc.c1), i2 |-> charIndex(calc.c2),
              ch1 |-> charAt(charIndex(calc.c1)), ch2 |-> charAt(charIndex(calc.c2))]
  /\ UNCHANGED appVars

\* the grid derivation of convertToASCII
AsciiGrid ==
  /\ calc.op = "bitmap"
  /\ LET rows == asciiRows(calc.cols, calc.W, calc.H)
     IN calc' = [op |-> "asciigrid", W |-> calc.W, H |-> calc.H, cols |-> calc.cols,
                 rows |-> rows,
                 charW |-> charSize(calc.W, calc.cols),
                 charH |-> charSize(calc.H, rows)]
  /\ UNCHANGED appVars

\* the grid derivation of convertToPaint and the pixel layer of applyPaintEffects
PaintGrid ==
  /\ calc.op = "surface"
  /\ LET smallW == smallSize(calc.W, calc.pixelSize)
         smallH == smallSize(calc.H, calc.pixelSize)
     IN calc' = [op |-> "paintgrid", W |-> calc.W, H |-> calc.H,
                 pixelSize |-> calc.pixelSize, smallW |-> smallW, smallH |-> smallH,
                 rect |-> [cell \in Cells(smallW, smallH) |->
                             PixelRect(cell[1], cell[2], smallW, smallH,
                                       calc.pixelSize, calc.W, calc.H)]]
  /\ UNCHANGED appVars

\* the first three statements of convertToPaint
PaintSize ==
  /\ calc.op = "option"
  /\ LET ps == pixelSizeOfOption(calc.num, calc.den)
     IN calc' = [op |-> "paintsize", W |-> calc.W, H |-> calc.H,
                 num |-> calc.num, den |-> calc.den, pixelSize |-> ps,
                 smallW |-> smallSize(calc.W, ps), smallH |-> smallSize(calc.H, ps)]
  /\ UNCHANGED appVars

\* applyPaintEffects on a grid of cells of colour (200, 100, 50, a)
PaintEffects ==
  /\ calc.op = "effects"
  /\ LET smallData == [cell \in Cells(calc.smallW, calc.smallH) |-> <<200, 100, 50, calc.a>>]
     IN \E run \in {ContextRun(PaintStatements(calc.smallW, calc.smallH, calc.opts),
                                NormalContext, <<>>)} :
          calc' = [op |-> "painted", smallW |-> calc.smallW, smallH |-> calc.smallH,
                   a |-> calc.a, opts |-> calc.opts,
                   log |-> PaintOps(smallData, calc.smallW, calc.smallH, calc.opts),
                   composited |-> run.drawn, ctx |-> run.ctx]
  /\ UNCHANGED appVars

\* convertToASCII on a freshly loaded file: both canvases hold its bitmap
AsciiImage ==
  /\ calc.op = "image"
  /\ \E r \in {convertToASCII(calc.fontSize, calc.colsInput,
                               FileBitmap(calc.f), FileBitmap(calc.f))} :
       calc' = [op |-> "asciiimage", f |-> calc.f, cols |-> r.cols, rows |-> r.rows,
                text |-> r.asciiText, drawn |-> r.drawn, out |-> r.exportCanvas]
  /\ UNCHANGED appVars

\* the first statement of convertToASCII
AsciiCols ==
  /\ calc.op = "colsinput"
  /\ calc' = [op |-> "colsused", colsInput |-> calc.colsInput, cols |-> ColsOf(calc.colsInput)]
  /\ UNCHANGED appVars

\* the rectangles of the pixel layer of convertToPaint in script.js
ScriptPaintGrid ==
  /\ calc.op = "surface"
  /\ LET smallW == smallSize(calc.W, calc.pixelSize)
         smallH == smallSize(calc.H, calc.pixelSize)
     IN calc' = [op |-> "scriptpaintgrid", W |-> calc.W, H |-> calc.H,
                 pixelSize |-> calc.pixelSize, smallW |-> smallW, smallH |-> smallH,
                 rect |-> [cell \in Cells(smallW, smallH) |->
                             ScriptPixelRect(cell[1], cell[2], smallW, smallH,
                                             calc.pixelSize, calc.W, calc.H)]]
  /\ UNCHANGED appVars

NextGrid ==
  \/ AsciiCols
  \/ AsciiCells
  \/ AsciiGrid
  \/ PaintGrid
  \/ PaintSize
  \/ PaintEffects
  \/ AsciiImage
  \/ ScriptPaintGrid

SpecGrid == InitGrid /\ [][NextGrid]_vars

(***************************************************************************)
(* Properties of the V1 application (checked under Spec)                   *)
(***************************************************************************)
\* C1: after any sequence of conversions, undos and resets on a loaded image
\* the Source Bitmap (originalCanvas) has the pixels and dimensions of the
\* loaded image; only the completion of an image load replaces it.
C1_SourceBitmapPristine ==
  [][/\ loadedImage' # 0 => originalCanvas' = FileBitmap(loadedImage')
     /\ originalCanvas' # originalCanvas =>
          \E i \in DOMAIN pending :
            /\ pending[i].kind = "load"
            /\ pending' = Remove(pending, i)
            /\ originalCanvas' = Decode(pending[i].url)]_vars

C1_Witness ==
  /\ loadedImage # 0
  /\ since = {"ascii", "paint", "undo", "reset"}
  /\ originalCanvas = FileBitmap(loadedImage)
  /\ exportCanvas # originalCanvas

\* C3: for a fixed loaded image, fixed cols and fixed fontSize, two ASCII
\* conversions produce identical glyph strings and identical output, whatever
\* was performed before or between them.
C3_TextDeterminism ==
  \A a \in asciiRuns, b \in asciiRuns :
    (a.img = b.img /\ a.cols = b.cols /\ a.fontSize = b.fontSize)
      => (a.text = b.text /\ a.out = b.out)

\* C4: once an image is loaded, the Output Surface (exportCanvas) has the
\* width and height of the Source Bitmap (originalCanvas), in every
\* interleaving of loads, conversions, undos, resets and decode completions.
C4_OutputSizeEqualsSourceSize ==
  loadedImage # 0 =>
    (exportCanvas.w = originalCanvas.w /\ exportCanvas.h = originalCanvas.h)

\* the bitmap is one solid opaque colour
Solid(canvas) ==
  /\ canvas.w > 0 /\ canvas.h > 0
  /\ \A i \in DOMAIN canvas.px :
       canvas.px[i] = PlainPixel(canvas.px[1].c) /\ canvas.px[i].c[4] = 255

\* C15: for a bitmap that is one solid opaque colour, a paint conversion with
\* only the pixel layer active yields an Output Surface of the source
\* dimensions in which every pixel has that colour, no white background left.
C15_SolidColourFillsOutput ==
  [][(conv'.n = conv.n + 1 /\ conv'.pixelOnly /\ Solid(originalCanvas)) =>
       /\ exportCanvas'.w = originalCanvas.w
       /\ exportCanvas'.h = originalCanvas.h
       /\ \A i \in DOMAIN exportCanvas'.px :
            exportCanvas'.px[i] = PlainPixel(originalCanvas.px[1].c)]_vars

\* C17: a decoded image with width 0 or height 0 is rejected before anything
\* is written: loadedImage, the Source Bitmap, the Output Surface and the
\* stored original are left as they were, and no conversion ever samples a
\* zero-sized bitmap.
C17_ZeroSizedImageRejected ==
  [][/\ \A i \in DOMAIN pending :
          (/\ pending[i].kind = "load"
           /\ Decode(pending[i].url).w = 0 \/ Decode(pending[i].url).h = 0
           /\ pending' = Remove(pending, i))
            => UNCHANGED <<loadedImage, originalCanvas, exportCanvas, originalImageData>>
     /\ conv'.n = conv.n + 1 =>
          /\ SrcCanvas(exportCanvas, originalCanvas).w > 0
          /\ SrcCanvas(exportCanvas, originalCanvas).h > 0]_vars

C17_Witness ==
  /\ savedImage = 3
  /\ pending = <<>>
  /\ loadedImage # 0
  /\ originalCanvas = FileBitmap(loadedImage)
  /\ conv.n >= 1

\* C20: loading a new image clears the conversion history: in every
\* interleaving of the file read, the image decode and clicks on convert,
\* once the new image has finished loading the undo history is empty, undo
\* is disabled and no snapshot of the previous image can be restored.
C20_LoadClearsHistory ==
  [][(\E i \in DOMAIN pending :
        /\ pending[i].kind = "load"
        /\ Decode(pending[i].url).w > 0 /\ Decode(pending[i].url).h > 0
        /\ pending' = Remove(pending, i)
        /\ loadedImage' = pending[i].f)
       => /\ historyStack' = <<>>
          /\ undoDisabled'
          /\ \A k \in DOMAIN pending' : pending'[k].kind # "undo"]_vars

(***************************************************************************)
(* Properties of the undo history (checked under SpecHistory)              *)
(***************************************************************************)
\* C19: the undo history never holds more than 12 snapshots; each conversion
\* appends the Output Surface contents that preceded it and, when that makes
\* 13, drops the oldest: so after n conversions the history holds the
\* contents that preceded each of the last min(n, 12), oldest first.
C19_HistoryKeepsLastTwelve ==
  [][/\ Len(historyStack') <= 12
     /\ conv'.n = conv.n + 1 =>
          LET before == Len(historyStack)
              after == Len(historyStack')
          IN /\ after = Min(before + 1, 12)
             /\ historyStack'[after] = [mime |-> "image/png", w |-> exportCanvas.w,
                                        h |-> exportCanvas.h, px |-> exportCanvas.px]
             /\ \A k \in 1..(after - 1) :
                  historyStack'[k] = historyStack[k + before + 1 - after]]_vars

C19_Witness ==
  /\ conv.n = 13
  /\ Len(historyStack) = 12
  /\ historyStack[1].px[1].ink # <<>>
  /\ historyStack[2].px[1].ink = <<>>
  /\ historyStack[12] # toDataURL(exportCanvas)

\* C30: with no random layer active (brush, impressionist and gallery off,
\* textureStrength 0), two paint conversions of the same loaded image with
\* the same options produce identical Output Surfaces, whatever the Output
\* Surface held before.
C30_PaintDeterminismWithoutRandomLayers ==
  \A a \in paintRuns, b \in paintRuns :
    (a.img = b.img /\ a.opts = b.opts) => a.out = b.out

(***************************************************************************)
(* Properties of undo, reset and the conversion counter                    *)
(***************************************************************************)
\* C29: in every state between event handlers the undo button is enabled
\* exactly when the undo history is non-empty.
C29_UndoEnabledIffHistoryNonEmpty ==
  undoDisabled <=> (historyStack = <<>>)

\* C22: when a reset completes, the Output Surface holds the pixels of the
\* currently loaded image, the undo history is empty, the undo button is
\* disabled and the ASCII conversion counter is 0, whatever loads and
\* conversions were started while the decode was pending.
C22_ResetRestoresLoadedImage ==
  [][(\E i \in DOMAIN pending : pending[i].kind = "reset" /\ pending' = Remove(pending, i)
                                /\ since' = since \cup {"reset"})
       => /\ exportCanvas' = FileBitmap(loadedImage')
          /\ historyStack' = <<>>
          /\ undoDisabled'
          /\ asciiConversionCount' = 0]_vars

\* C24: a convert request issued while no image is loaded changes nothing:
\* no snapshot is pushed, and the undo button, the ASCII conversion counter,
\* the Output Surface and the text area stay as they were.
C24_ConvertWithoutImageChangesNothing ==
  [][(loadedImage = 0 /\ ops' # ops /\ "rejected" \in since')
       => UNCHANGED <<historyStack, undoDisabled, asciiConversionCount, exportCanvas,
                      originalCanvas, asciiText, loadedImage>>]_vars

C24_Witness ==
  /\ loadedImage = 0
  /\ "rejected" \in since
  /\ ops >= 2
  /\ historyStack = <<>>

(***************************************************************************)
(* The easter egg counter (checked under SpecEgg)                          *)
(***************************************************************************)
\* C23: the counter stays in 0..9; an ASCII conversion moves it from c to
\* c + 1, or triggers the easter egg and restarts it at 0 exactly when it is
\* the 10th since the counter was last zeroed (c = 9); a paint conversion
\* neither triggers nor changes it; of the other steps only a reset click
\* changes it, to 0.
C23_EggOnEveryTenthAsciiConversion ==
  [][/\ asciiConversionCount' \in 0..9
     /\ IF conv'.n = conv.n + 1
        THEN IF conv'.mode = "ascii"
             THEN /\ conv'.egg <=> (asciiConversionCount = 9)
                  /\ asciiConversionCount' =
                       IF asciiConversionCount = 9 THEN 0 ELSE asciiConversionCount + 1
             ELSE /\ ~conv'.egg
                  /\ asciiConversionCount' = asciiConversionCount
        ELSE asciiConversionCount' # asciiConversionCount
               => /\ asciiConversionCount' = 0
                  /\ ops' = ops + 1
                  /\ pending' = Append(pending, [kind |-> "reset", f |-> 0,
                                                 url |-> originalImageData])]_vars

\* the 10th ASCII conversion has just triggered the egg and restarted the
\* count, a paint conversion and an undo having come between the ten
C23_Witness ==
  /\ conv.mode = "ascii"
  /\ conv.egg
  /\ asciiConversionCount = 0
  /\ conv.n = 11
  /\ since = {"ascii", "paint", "undo"}

(***************************************************************************)
(* Undo after conversions (checked under SpecUndo)                         *)
(***************************************************************************)
\* C21: once an undo requested right after a conversion has completed, the
\* Output Surface equals its content immediately before that conversion;
\* and when as many undos as conversions have completed since the image was
\* loaded (the history is empty again), the Output Surface is back to the
\* content it had before the first conversion, the loaded image.
C21_UndoRestoresContentBeforeConversion ==
  /\ (pending = <<>> /\ lastOp.kind = "undo" /\ lastOp.prev = "convert")
       => exportCanvas = lastOp.before
  /\ (pending = <<>> /\ loadedImage # 0 /\ historyStack = <<>>)
       => exportCanvas = FileBitmap(loadedImage)

\* four conversions, the last two of different kinds, and four completed undos
C21_Witness ==
  /\ pending = <<>>
  /\ conv.n = 4
  /\ ops = 8
  /\ conv.out # lastOp.before
  /\ lastOp.before # FileBitmap(loadedImage)
  /\ lastOp.kind = "undo"
  /\ lastOp.prev = "undo"
  /\ historyStack = <<>>
  /\ exportCanvas = FileBitmap(loadedImage)

(***************************************************************************)
(* Order of requests and order of effects (checked under SpecOrder)        *)
(***************************************************************************)
\* C27: when Undo or Reset is clicked and Convert is clicked next, then once
\* every callback has run the Output Surface holds the result of that
\* conversion.
C27_ConversionAfterUndoOrResetWins ==
  (/\ pending = <<>>
   /\ lastOp.kind = "convert"
   /\ lastOp.prev \in {"undo", "reset"}
   /\ conv.n >= 1)
    => exportCanvas = conv.out

\* C28: when two files are chosen one after the other, then once every read
\* and decode has completed, loadedImage, the Source Bitmap and the Output
\* Surface hold the file chosen last, and so does 'savedImage'.
C28_LastChosenFileWins ==
  (/\ pending = <<>>
   /\ lastOp.kind = "file"
   /\ lastOp.prev = "file"
   /\ lastOp.f \in {1, 2})
    => /\ loadedImage = lastOp.f
       /\ originalCanvas = FileBitmap(lastOp.f)
       /\ exportCanvas = FileBitmap(lastOp.f)
       /\ savedImage = lastOp.f

(***************************************************************************)
(* Properties of every variant (checked under Spec and SpecScript)         *)
(***************************************************************************)
\* C2: every conversion that runs after a previous conversion on the same
\* loaded image takes its cell samples from the pristine Source Bitmap and
\* never from the Output Surface left by the previous conversion.
C2_SamplesFromPristineSource ==
  conv.n >= 2 => (conv.src # "exportCanvas" /\ conv.pristine)
(***************************************************************************)
(* Properties of the arithmetic (checked under SpecGrid)                   *)
(***************************************************************************)
Black == <<0, 0, 0>>
White == <<255, 255, 255>>

\* C5: in text mode darker cells select earlier (denser) ramp characters: of two
\* cell colours the one with lower luminance gets an equal or earlier ramp
\* position, black is rendered as "@" and white as " ".
C5_DarkerCellsSelectEarlierChars ==
  calc.op = "glyphs" =>
    /\ (Luma(calc.c1) < Luma(calc.c2) => calc.i1 <= calc.i2)
    /\ (calc.c1 = Black => calc.ch1 = "@")
    /\ (calc.c1 = White => calc.ch1 = " ")

C7_RampIndexInRange ==
  calc.op = "glyphs" =>
    /\ calc.i1 \in 0..9
    /\ calc.i2 \in 0..9
    /\ \E k \in 1..10 : calc.ch1 = ASCII_CHARS[k]

C7_Witness ==
  calc.op = "glyphs" /\ calc.c1 = Black /\ calc.i1 = 9 /\ calc.c2 = White /\ calc.i2 = 0

\* C8: rows is max(4, round(cols * H / W * 0.5)) with halves rounded up: the
\* rounded value r is the integer with r - 1/2 <= cols*H/(2W) < r + 1/2;
\* 120 columns on 1600 x 1000 give 38; rows is never below 4.
C8_DerivedRows ==
  calc.op = "asciigrid" =>
    /\ calc.rows >= 4
    /\ \E r \in (0..4) \cup {calc.rows} :
         /\ (2 * r - 1) * calc.W <= calc.cols * calc.H
         /\ calc.cols * calc.H < (2 * r + 1) * calc.W
         /\ calc.rows = Max(4, r)
    /\ (calc.W = 1600 /\ calc.H = 1000 /\ calc.cols = 120 => calc.rows = 38)

C8_Witness ==
  calc.op = "asciigrid" /\ calc.W = 1600 /\ calc.H = 1000 /\ calc.cols = 120 /\ calc.rows = 38

\* C9: the glyph cells placed at (col * charW, row * charH) reach the right and
\* bottom edges of the output surface: cols * charW >= W and rows * charH >= H.
C9_GlyphCellsReachEdges ==
  calc.op = "asciigrid" =>
    /\ calc.cols * calc.charW >= calc.W
    /\ calc.rows * calc.charH >= calc.H

\* C10: the rectangles filled by the pixel layer tile the output surface: every
\* output pixel lies in exactly one cell rectangle, no rectangle leaves the
\* surface, and the last column and row end at the surface edge.
C10_PixelRectsTileSurface ==
  calc.op = "paintgrid" =>
    /\ \A px \in 0..(calc.W - 1), py \in 0..(calc.H - 1) :
         Cardinality({cell \in DOMAIN calc.rect : RectCovers(calc.rect[cell], px, py)}) = 1
    /\ \A cell \in DOMAIN calc.rect :
         LET r == calc.rect[cell]
         IN /\ r.w > 0 /\ r.h > 0
            /\ r.x + r.w <= calc.W /\ r.y + r.h <= calc.H
            /\ (cell[1] = calc.smallW - 1 => r.x + r.w = calc.W)
            /\ (cell[2] = calc.smallH - 1 => r.y + r.h = calc.H)

C10_Witness ==
  /\ calc.op = "paintgrid"
  /\ calc.smallW > 1
  /\ calc.W % calc.pixelSize # 0
  /\ calc.H < calc.pixelSize
  /\ calc.rect[<<calc.smallW - 1, 0>>].w > calc.pixelSize

\* C11 (as stated): for every numeric value of the cell-size option, 0, negative
\* and fractional values included, paint conversion uses
\* cellSize = max(2, round(option)), cols = max(floor(W / cellSize), 1) and
\* rows = max(floor(H / cellSize), 1).
C11_CellSizeIsClampedRound ==
  calc.op = "paintsize" =>
    /\ \E r \in (0 - 2 * MaxCell - 1)..(2 * MaxCell + 1) :
         /\ (2 * r - 1) * calc.den <= 2 * calc.num
         /\ 2 * calc.num < (2 * r + 1) * calc.den
         /\ calc.pixelSize = Max(2, r)
    /\ calc.smallW = Max(calc.W \div calc.pixelSize, 1)
    /\ calc.smallH = Max(calc.H \div calc.pixelSize, 1)

\* C11 (amended): for every non-zero numeric value of the cell-size option
\* cellSize = max(2, round(option)), halves rounded up; the value 0 selects the
\* default cell size 8; cols = max(floor(W / cellSize), 1) and
\* rows = max(floor(H / cellSize), 1); hence cellSize >= 2, cols >= 1, rows >= 1.
C11_CellSizeClampWithDefault ==
  calc.op = "paintsize" =>
    /\ calc.num = 0 => calc.pixelSize = 8
    /\ calc.num # 0 =>
         \E r \in (0 - 2 * MaxCell - 1)..(2 * MaxCell + 1) :
           /\ (2 * r - 1) * calc.den <= 2 * calc.num
           /\ 2 * calc.num < (2 * r + 1) * calc.den
           /\ calc.pixelSize = Max(2, r)
    /\ calc.smallW = Max(calc.W \div calc.pixelSize, 1)
    /\ calc.smallH = Max(calc.H \div calc.pixelSize, 1)
    /\ calc.pixelSize >= 2 /\ calc.smallW >= 1 /\ calc.smallH >= 1

C11_Witness ==
  /\ calc.op = "paintsize"
  /\ calc.num = 5 /\ calc.den = 2 /\ calc.pixelSize = 3
  /\ calc.W = 6 /\ calc.smallW = 2 /\ calc.H = 2 /\ calc.smallH = 1

\* C12: for every brushStrength in [0, 1] each brush daub is filled with the
\* cell colour at alpha = cellAlpha * brushStrength; a brushStrength of 0
\* yields fully transparent daubs.
C12_BrushAlphaScalesWithStrength ==
  calc.op = "painted" =>
    \A k \in DOMAIN calc.log :
      calc.log[k].layer = "brush" =>
        /\ calc.log[k].alpha = calc.a * calc.opts.brushStrength * 100
        /\ (calc.opts.brushStrength = 0 => calc.log[k].alpha = 0)

\* the position of a layer in the documented order
LayerRank(layer) ==
  CASE layer = "background" -> 0
    [] layer = "pixel" -> 1
    [] layer = "brush" -> 2
    [] layer = "impression" -> 3
    [] layer = "watercolor" -> 4
    [] OTHER -> 5

\* the position of a cell in row-major order
CellRank(cell, smallW) == cell[2] * smallW + cell[1]

\* C13 (as stated): paint layers are composited in the order background,
\* pixel, brush, impressionist, watercolor, texture: every drawing operation
\* of an earlier layer, over all cells, happens before any drawing operation
\* of a later layer, and the texture overlay is drawn last.
C13_LayersInFixedOrder ==
  calc.op = "painted" =>
    \A i \in DOMAIN calc.log, j \in DOMAIN calc.log :
      i < j => LayerRank(calc.log[i].layer) <= LayerRank(calc.log[j].layer)

\* C13 (amended): the background is drawn first, then the pixel layer over
\* all cells, then one painterly pass over the cells in row-major order in
\* which each cell draws its brush daubs, then its impressionist dab, then its
\* watercolor wash (so a later cell's brush follows an earlier cell's wash),
\* and the texture overlay is drawn last.
C13_PixelThenCellwiseEffectsThenTexture ==
  calc.op = "painted" =>
    LET log == calc.log
        Painterly(k) == log[k].layer \in {"brush", "impression", "watercolor"}
    IN /\ log[1].layer = "background"
       /\ \A i \in DOMAIN log, j \in DOMAIN log :
            i < j =>
              /\ log[j].layer # "background"
              /\ log[i].layer # "texture"
              /\ (log[j].layer = "pixel" => log[i].layer \in {"background", "pixel"})
              /\ (Painterly(i) /\ Painterly(j) =>
                    \/ CellRank(log[i].cell, calc.smallW) < CellRank(log[j].cell, calc.smallW)
                    \/ /\ log[i].cell = log[j].cell
                       /\ LayerRank(log[i].layer) < LayerRank(log[j].layer))

C13_Witness ==
  /\ calc.op = "painted"
  /\ calc.smallW = 2 /\ calc.smallH = 1
  /\ calc.opts.pixel /\ calc.opts.brush /\ calc.opts.impression
  /\ calc.opts.watercolor /\ calc.opts.gallery
  /\ Len(calc.log) = 10
  /\ calc.log[6].layer = "watercolor" /\ calc.log[6].cell = <<0, 0>>
  /\ calc.log[7].layer = "brush" /\ calc.log[7].cell = <<1, 0>>
  /\ calc.log[10].layer = "texture"

\* C14: the texture overlay is composited if and only if the gallery toggle
\* is on or textureStrength > 0, whatever the pixel, brush, impressionist and
\* watercolor toggles are; with gallery off and textureStrength = 0 no
\* texture is drawn.
C14_TextureIffGalleryOrStrength ==
  calc.op = "painted" =>
    ((\E k \in DOMAIN calc.log : calc.log[k].layer = "texture")
       <=> (calc.opts.gallery \/ calc.opts.textureStrength > 0))

C14_Witness ==
  /\ calc.op = "painted"
  /\ ~calc.opts.gallery /\ calc.opts.textureStrength > 0
  /\ ~calc.opts.pixel /\ ~calc.opts.brush /\ ~calc.opts.impression /\ ~calc.opts.watercolor
  /\ Len(calc.log) = 2
  /\ calc.log[2].layer = "texture"

\* the number of fillText calls up to that of cell c that are anchored where c's is
AnchorRank(drawn, c, cols) ==
  Cardinality({d \in DOMAIN drawn :
                 /\ drawn[d].x = drawn[c].x /\ drawn[d].y = drawn[c].y
                 /\ CellRank(d, cols) <= CellRank(c, cols)})

\* C16: after an ASCII conversion with a grid of cols x rows the text of the
\* text area is exactly rows lines of exactly cols glyphs, each line followed
\* by one line break, and the glyph at position x of line y is the glyph drawn
\* for cell (x, y): the one passed to fillText, and the one inked on the
\* Output Surface where the cell is anchored.
C16_TextMatchesDrawnGlyphs ==
  calc.op = "asciiimage" =>
    LET cols == calc.cols
        rows == calc.rows
        text == calc.text
    IN /\ Len(text) = rows * (cols + 1)
       /\ DOMAIN calc.drawn = Cells(cols, rows)
       /\ \A y \in 0..(rows - 1) :
            /\ text[y * (cols + 1) + cols + 1] = "\n"
            /\ \A x \in 0..(cols - 1) :
                 LET g == text[y * (cols + 1) + x + 1]
                     call == calc.drawn[<<x, y>>]
                 IN /\ \E k \in DOMAIN ASCII_CHARS : g = ASCII_CHARS[k]
                    /\ g = call.ch
                    /\ (call.x < calc.out.w /\ call.y < calc.out.h) =>
                         PixelAt(calc.out, call.x, call.y).ink[
                           AnchorRank(calc.drawn, <<x, y>>, cols)] = g

C16_Witness ==
  /\ calc.op = "asciiimage"
  /\ calc.f = 2 /\ calc.cols = 3 /\ calc.rows = 4
  /\ Len(calc.text) = 16
  /\ calc.text[1] # calc.text[2]
  /\ PixelAt(calc.out, 1, 0).ink = <<calc.text[2]>>

\* C18: whatever value the column-count input holds (0, negative, below the
\* minimum), the column count used by text conversion is a positive integer
\* of at least the minimum of 20.
C18_ColumnsClampedToMinimum ==
  /\ calc.op = "colsused" => calc.cols >= 20
  /\ calc.op = "asciiimage" => calc.cols >= 20

\* C25: in script.js the pixel layer leaves no unpainted border: for every
\* surface width and height and every cell size, every pixel of the Output
\* Surface lies inside some filled cell rectangle.
C25_ScriptPixelLayerCoversSurface ==
  calc.op = "scriptpaintgrid" =>
    \A px \in 0..(calc.W - 1), py \in 0..(calc.H - 1) :
      \E cell \in DOMAIN calc.rect : RectCovers(calc.rect[cell], px, py)

\* C26: for every combination of the layer toggles, when applyPaintEffects
\* returns the context is back to globalCompositeOperation 'source-over' and
\* globalAlpha 1, and during the call every brush daub and impressionist dab
\* is composited with 'source-over', the watercolor washes and only they with
\* 'lighter', the texture and only it with 'overlay'.
C26_CompositingStateRestored ==
  calc.op = "painted" =>
    /\ calc.ctx = [globalCompositeOperation |-> "source-over", globalAlpha |-> 255 * 10000]
    /\ \A k \in DOMAIN calc.composited :
         LET d == calc.composited[k]
         IN /\ d.layer \in {"brush", "impression"} => d.globalCompositeOperation = "source-over"
            /\ d.globalCompositeOperation = "lighter" <=> d.layer = "watercolor"
            /\ d.globalCompositeOperation = "overlay" <=> d.layer = "texture"

\* impressionist, watercolor and texture on, brush off, more than one cell: a
\* dab follows the wash of the cell before it
C26_Witness ==
  /\ calc.op = "painted"
  /\ calc.smallW * calc.smallH > 1
  /\ ~calc.opts.brush
  /\ calc.opts.impression /\ calc.opts.watercolor /\ calc.opts.textureStrength > 0
  /\ \E k \in DOMAIN calc.composited :
       /\ k > 1
       /\ calc.composited[k].layer = "impression"
       /\ calc.composited[k - 1].layer = "watercolor"
  /\ \E k \in DOMAIN calc.composited :
       /\ calc.composited[k].layer = "texture"
       /\ calc.composited[k].globalAlpha < 255 * 10000
====
